---- MODULE Spec2Model ----
(***************************************************************************)
(* File encoding converter (crates/main_app) and demo_lib::add.           *)
(*                                                                         *)
(* A file is a sequence of bytes (0..255); decoded text is a sequence of   *)
(* Unicode scalar values.  The encoding_rs calls made by process_file      *)
(* (Encoding::for_label, Encoding::for_bom, Encoding::decode,              *)
(* Encoding::encode) are modelled by what they compute.                    *)
(***************************************************************************)
EXTENDS Integers, Sequences, FiniteSets, TLC

\* ------------------------------------------------------------------ bounds

\* Longest content (in bytes) of the file process_file is called on.
MaxLen == 4
\* Number of entries of the directory walked.
NumFiles == 3

\* ----------------------------------------------------------- byte helpers

\* The bytes file contents are drawn from: 'A', the three bytes of the UTF-8
\* signature (EF BB BF; each is also a non-ASCII windows-1252 letter and an
\* invalid lone UTF-8 byte) and the two bytes of the UTF-16 signatures (FF FE).
Bytes == {65, 239, 187, 191, 255, 254}

REPLACEMENT == <<65533>>

Drop(s, n) == SubSeq(s, n + 1, Len(s))

StartsWith(s, p) == Len(s) >= Len(p) /\ SubSeq(s, 1, Len(p)) = p

RECURSIVE SeqsUpTo(_, _)
SeqsUpTo(S, n) ==
    IF n = 0 THEN {<<>>}
    ELSE LET shorter == SeqsUpTo(S, n - 1)
         IN  shorter \cup {Append(s, x) : s \in {t \in shorter : Len(t) = n - 1}, x \in S}

\* -------------------------------------------------- encoding_rs: registry

Labels == {"utf-8", "windows-1252", "utf-16le", "bogus"}

\* Encoding::for_label: None for a label the registry does not know.
for_label(label) ==
    CASE label = "utf-8"        -> "UTF_8"
      [] label = "windows-1252" -> "WINDOWS_1252"
      [] label = "utf-16le"     -> "UTF_16LE"
      [] OTHER                  -> "None"

\* main: Encoding::for_label(..).unwrap_or_else(|| UTF_8)
TargetEncoding(label) ==
    IF for_label(label) = "None" THEN "UTF_8" ELSE for_label(label)

\* Encoding::for_bom: the encoding a leading signature names and its length.
\* (mutant: every signature is taken to be two bytes long)
for_bom_two_bytes(buffer) ==
    CASE StartsWith(buffer, <<239, 187, 191>>) -> <<"UTF_8", 2>>
      [] StartsWith(buffer, <<255, 254>>)      -> <<"UTF_16LE", 2>>
      [] StartsWith(buffer, <<254, 255>>)      -> <<"UTF_16BE", 2>>
      [] OTHER                                 -> <<"None", 0>>

for_bom(buffer) ==
    CASE StartsWith(buffer, <<239, 187, 191>>) -> <<"UTF_8", 3>>
      [] StartsWith(buffer, <<255, 254>>)      -> <<"UTF_16LE", 2>>
      [] StartsWith(buffer, <<254, 255>>)      -> <<"UTF_16BE", 2>>
      [] OTHER                                 -> <<"None", 0>>

\* ------------------------------------------------- encoding_rs: decoders

\* windows-1252, bytes 0x80..0x9F (index byte - 127); every other byte maps
\* to the code point of the same number.
W1252High ==
    << 8364, 129, 8218, 402, 8222, 8230, 8224, 8225,
       710, 8240, 352, 8249, 338, 141, 381, 143,
       144, 8216, 8217, 8220, 8221, 8226, 8211, 8212,
       732, 8482, 353, 8250, 339, 157, 382, 376 >>

W1252Char(b) == IF b >= 128 /\ b <= 159 THEN W1252High[b - 127] ELSE b

W1252Decode(bytes) ==
    [text |-> [i \in 1..Len(bytes) |-> W1252Char(bytes[i])], had_errors |-> FALSE]

\* UTF-8 lead byte: how many continuation bytes follow, the range allowed for
\* the first of them, and the bits the lead byte contributes.
Utf8Lead(c) ==
    CASE c >= 194 /\ c <= 223 -> [need |-> 1, lo |-> 128, hi |-> 191, bits |-> c - 192]
      [] c = 224              -> [need |-> 2, lo |-> 160, hi |-> 191, bits |-> c - 224]
      [] c >= 225 /\ c <= 236 -> [need |-> 2, lo |-> 128, hi |-> 191, bits |-> c - 224]
      [] c = 237              -> [need |-> 2, lo |-> 128, hi |-> 159, bits |-> c - 224]
      [] c >= 238 /\ c <= 239 -> [need |-> 2, lo |-> 128, hi |-> 191, bits |-> c - 224]
      [] c = 240              -> [need |-> 3, lo |-> 144, hi |-> 191, bits |-> c - 240]
      [] c >= 241 /\ c <= 243 -> [need |-> 3, lo |-> 128, hi |-> 191, bits |-> c - 240]
      [] c = 244              -> [need |-> 3, lo |-> 128, hi |-> 143, bits |-> c - 240]
      [] OTHER                -> [need |-> 0, lo |-> 0, hi |-> 0, bits |-> 0]

\* Whether the k-th continuation byte after the lead byte at position i is there
\* and allowed.
Utf8ContOk(b, i, k, lead) ==
    /\ i + k <= Len(b)
    /\ b[i + k] >= (IF k = 1 THEN lead.lo ELSE 128)
    /\ b[i + k] <= (IF k = 1 THEN lead.hi ELSE 191)

RECURSIVE Utf8Value(_, _, _, _)
Utf8Value(b, i, k, acc) ==
    IF k = 0 THEN acc
    ELSE Utf8Value(b, i + 1, k - 1, acc * 64 + (b[i + 1] - 128))

RECURSIVE Utf8From(_, _)
Utf8From(b, i) ==
    IF i > Len(b) THEN [text |-> <<>>, had_errors |-> FALSE]
    ELSE
      LET c == b[i] IN
      IF c < 128
      THEN LET r == Utf8From(b, i + 1)
           IN  [text |-> <<c>> \o r.text, had_errors |-> r.had_errors]
      ELSE
        LET lead == Utf8Lead(c)
            bad  == {k \in 1..lead.need : ~Utf8ContOk(b, i, k, lead)}
        IN
        IF lead.need = 0
        THEN LET r == Utf8From(b, i + 1)
             IN  [text |-> REPLACEMENT \o r.text, had_errors |-> TRUE]
        ELSE IF bad # {}
        THEN \* the sequence is cut short: one replacement character, and the
             \* offending byte is decoded again as the start of a sequence
             LET k == CHOOSE x \in bad : \A y \in bad : x <= y
                 r == Utf8From(b, i + k)
             IN  [text |-> REPLACEMENT \o r.text, had_errors |-> TRUE]
        ELSE LET r == Utf8From(b, i + lead.need + 1)
             IN  [text |-> <<Utf8Value(b, i, lead.need, lead.bits)>> \o r.text,
                  had_errors |-> r.had_errors]

Utf8Decode(bytes) == Utf8From(bytes, 1)

Utf16Unit(b, i, be) ==
    IF be THEN b[i] * 256 + b[i + 1] ELSE b[i + 1] * 256 + b[i]

IsLeadSurrogate(u) == u >= 55296 /\ u <= 56319

IsTrailSurrogate(u) == u >= 56320 /\ u <= 57343

RECURSIVE Utf16From(_, _, _)
Utf16From(b, i, be) ==
    IF i > Len(b) THEN [text |-> <<>>, had_errors |-> FALSE]
    ELSE IF i = Len(b) THEN [text |-> REPLACEMENT, had_errors |-> TRUE]
    ELSE
      LET u == Utf16Unit(b, i, be) IN
      IF IsLeadSurrogate(u)
      THEN IF i + 3 > Len(b)
           THEN [text |-> REPLACEMENT, had_errors |-> TRUE]
           ELSE LET u2 == Utf16Unit(b, i + 2, be) IN
                IF IsTrailSurrogate(u2)
                THEN LET r == Utf16From(b, i + 4, be)
                     IN  [text |-> <<65536 + (u - 55296) * 1024 + (u2 - 56320)>> \o r.text,
                          had_errors |-> r.had_errors]
                ELSE LET r == Utf16From(b, i + 2, be)
                     IN  [text |-> REPLACEMENT \o r.text, had_errors |-> TRUE]
      ELSE IF IsTrailSurrogate(u)
      THEN LET r == Utf16From(b, i + 2, be)
           IN  [text |-> REPLACEMENT \o r.text, had_errors |-> TRUE]
      ELSE LET r == Utf16From(b, i + 2, be)
           IN  [text |-> <<u>> \o r.text, had_errors |-> r.had_errors]

\* Encoding::decode_without_bom_handling
DecodeWithoutBom(enc, bytes) ==
    CASE enc = "UTF_8"    -> Utf8Decode(bytes)
      [] enc = "UTF_16LE" -> Utf16From(bytes, 1, FALSE)
      [] enc = "UTF_16BE" -> Utf16From(bytes, 1, TRUE)
      [] OTHER            -> W1252Decode(bytes)

\* Encoding::decode: a signature at the start of the input overrides the
\* encoding the call is made on, and is removed from the input.
Decode(enc, bytes) ==
    LET bom == for_bom(bytes) IN
    IF bom[1] # "None" THEN DecodeWithoutBom(bom[1], Drop(bytes, bom[2]))
    ELSE DecodeWithoutBom(enc, bytes)

\* ------------------------------------------------- encoding_rs: encoders

Utf8Bytes(cp) ==
    CASE cp < 128   -> <<cp>>
      [] cp >= 128 /\ cp < 2048 ->
           <<192 + (cp \div 64), 128 + (cp % 64)>>
      [] cp >= 2048 /\ cp < 65536 ->
           <<224 + (cp \div 4096), 128 + ((cp \div 64) % 64), 128 + (cp % 64)>>
      [] OTHER ->
           <<240 + (cp \div 262144), 128 + ((cp \div 4096) % 64),
             128 + ((cp \div 64) % 64), 128 + (cp % 64)>>

RECURSIVE Utf8Encode(_)
Utf8Encode(text) ==
    IF text = <<>> THEN <<>> ELSE Utf8Bytes(Head(text)) \o Utf8Encode(Tail(text))

\* The windows-1252 byte of a code point, or -1 when it has none.
W1252Byte(cp) ==
    IF cp < 128 \/ (cp >= 160 /\ cp <= 255) THEN cp
    ELSE IF \E b \in 128..159 : W1252High[b - 127] = cp
    THEN CHOOSE b \in 128..159 : W1252High[b - 127] = cp
    ELSE -1

RECURSIVE Digits(_)
Digits(n) == IF n < 10 THEN <<48 + n>> ELSE Digits(n \div 10) \o <<48 + (n % 10)>>

\* An unmappable character is written as a decimal numeric character
\* reference, "&#NNNN;".
NumericReference(cp) == <<38, 35>> \o Digits(cp) \o <<59>>

RECURSIVE W1252Encode(_)
W1252Encode(text) ==
    IF text = <<>> THEN [bytes |-> <<>>, had_errors |-> FALSE]
    ELSE LET b == W1252Byte(Head(text))
             r == W1252Encode(Tail(text))
         IN  IF b = -1
             THEN [bytes |-> NumericReference(Head(text)) \o r.bytes, had_errors |-> TRUE]
             ELSE [bytes |-> <<b>> \o r.bytes, had_errors |-> r.had_errors]

\* Encoding::output_encoding: UTF-16 is never written; UTF-8 is written instead.
OutputEncoding(enc) ==
    IF enc \in {"UTF_16LE", "UTF_16BE"} THEN "UTF_8" ELSE enc

\* Encoding::encode
Encode(enc, text) ==
    IF OutputEncoding(enc) = "UTF_8"
    THEN [bytes |-> Utf8Encode(text), had_errors |-> FALSE]
    ELSE W1252Encode(text)

\* ------------------------------------------------------------- the program

VARIABLES
    pc,               \* main: the statement about to run
    exit_code,        \* the process's exit status, -1 while it runs
    target_encoding,  \* main: target_encoding
    disk,             \* the bytes of every file, by file
    entries,          \* the directory walk: for each entry, whether it is a
                      \* file with the configured extension ("match") or not
    idx,              \* process_directory: the entry the loop is at
    pf,               \* the running call of process_file: its locals
    log,              \* what the program reported, in order
    calls,            \* every finished call of process_file: its file, its
                      \* result, the file's bytes before and after
    add_in,           \* demo_lib::add: the arguments
    add_out           \* demo_lib::add: the outcome

vars == <<pc, exit_code, target_encoding, disk, entries, idx, pf, log, calls,
          add_in, add_out>>

add_vars == <<add_in, add_out>>

PfIdle ==
    [pc |-> "idle", file |-> 0, before |-> <<>>, buffer |-> <<>>,
     source_encoding |-> "None", bom_len |-> 0,
     decoded_str |-> <<>>, decode_had_errors |-> FALSE,
     encoded_bytes |-> <<>>, encode_had_errors |-> FALSE,
     create_called |-> FALSE, result |-> "none"]

\* A call process_file(file, target_encoding).
PfCall(file) == [PfIdle EXCEPT !.pc = "open", !.file = file, !.before = disk[file]]

\* `return Err(reason)` or `Ok(())`.
PfReturn(frame, result) == [frame EXCEPT !.pc = "ret", !.result = result]

Report(kind, file) == [kind |-> kind, file |-> file]

\* --- process_file

\* fs::File::open(file_path)?
PfOpen ==
    /\ pf.pc = "open"
    /\ \/ pf' = [pf EXCEPT !.pc = "read"]
       \/ pf' = PfReturn(pf, "IOError")
    /\ UNCHANGED <<pc, exit_code, target_encoding, disk, entries, idx, log, calls,
                   add_vars>>

\* file.read_to_end(&mut buffer)?
PfRead ==
    /\ pf.pc = "read"
    /\ \/ pf' = [pf EXCEPT !.pc = "resolve", !.buffer = disk[pf.file]]
       \/ pf' = PfReturn(pf, "IOError")
    /\ UNCHANGED <<pc, exit_code, target_encoding, disk, entries, idx, log, calls,
                   add_vars>>

\* (mutant: UTF-8 is the default)
SourceEncoding_utf8(buffer) ==
    IF for_bom(buffer)[1] = "None" THEN <<"UTF_8", 0>> ELSE for_bom(buffer)

\* Encoding::for_bom(&buffer).unwrap_or((WINDOWS_1252, 0))
SourceEncoding(buffer) ==
    IF for_bom(buffer)[1] = "None" THEN <<"WINDOWS_1252", 0>> ELSE for_bom(buffer)

PfResolve ==
    /\ pf.pc = "resolve"
    /\ pf' = [pf EXCEPT !.pc = "decode",
                        !.source_encoding = SourceEncoding(pf.buffer)[1],
                        !.bom_len = SourceEncoding(pf.buffer)[2]]
    /\ log' = Append(log, Report("detected", pf.file))
    /\ UNCHANGED <<pc, exit_code, target_encoding, disk, entries, idx, calls,
                   add_vars>>

\* (mutant: a decode error ends the call)
PfDecode_strict ==
    /\ pf.pc = "decode"
    /\ LET d == Decode(pf.source_encoding, Drop(pf.buffer, pf.bom_len))
           frame == [pf EXCEPT !.decoded_str = d.text,
                               !.decode_had_errors = d.had_errors]
       IN
       /\ pf' = IF d.had_errors
                 THEN PfReturn(frame, "DecodeError")
                 ELSE [frame EXCEPT !.pc = "encode"]
       /\ log' = IF d.had_errors
                 THEN Append(log, Report("decode_warning", pf.file))
                 ELSE log
    /\ UNCHANGED <<pc, exit_code, target_encoding, disk, entries, idx, calls,
                   add_vars>>

\* source_encoding.decode(&buffer[bom_len..]); a decode error is a warning
PfDecode ==
    /\ pf.pc = "decode"
    /\ LET d == Decode(pf.source_encoding, Drop(pf.buffer, pf.bom_len)) IN
       /\ pf' = [pf EXCEPT !.pc = "encode",
                           !.decoded_str = d.text,
                           !.decode_had_errors = d.had_errors]
       /\ log' = IF d.had_errors
                 THEN Append(log, Report("decode_warning", pf.file))
                 ELSE log
    /\ UNCHANGED <<pc, exit_code, target_encoding, disk, entries, idx, calls,
                   add_vars>>

\* (mutant: the encoder's error flag is not looked at)
PfEncode_unchecked ==
    /\ pf.pc = "encode"
    /\ LET e == Encode(target_encoding, pf.decoded_str)
       IN  pf' = [pf EXCEPT !.encoded_bytes = e.bytes,
                            !.encode_had_errors = e.had_errors,
                            !.pc = "create"]
    /\ UNCHANGED <<pc, exit_code, target_encoding, disk, entries, idx, log, calls,
                   add_vars>>

\* target_encoding.encode(&decoded_str); an encode error ends the call
PfEncode ==
    /\ pf.pc = "encode"
    /\ LET e == Encode(target_encoding, pf.decoded_str)
           frame == [pf EXCEPT !.encoded_bytes = e.bytes,
                               !.encode_had_errors = e.had_errors]
       IN  pf' = IF e.had_errors
                 THEN PfReturn(frame, "TargetUnrepresentable")
                 ELSE [frame EXCEPT !.pc = "create"]
    /\ UNCHANGED <<pc, exit_code, target_encoding, disk, entries, idx, log, calls,
                   add_vars>>

\* (mutant: the file is opened for writing without being emptied)
PfCreate_append ==
    /\ pf.pc = "create"
    /\ \/ pf' = [pf EXCEPT !.pc = "write", !.create_called = TRUE]
       \/ pf' = PfReturn([pf EXCEPT !.create_called = TRUE], "IOError")
    /\ UNCHANGED <<pc, exit_code, target_encoding, disk, entries, idx, log, calls,
                   add_vars>>

\* fs::File::create(file_path)?: the file is emptied when it is opened
PfCreate ==
    /\ pf.pc = "create"
    /\ \/ /\ pf' = [pf EXCEPT !.pc = "write", !.create_called = TRUE]
          /\ disk' = [disk EXCEPT ![pf.file] = <<>>]
       \/ /\ pf' = PfReturn([pf EXCEPT !.create_called = TRUE], "IOError")
          /\ UNCHANGED disk
    /\ UNCHANGED <<pc, exit_code, target_encoding, entries, idx, log, calls,
                   add_vars>>

\* file.write_all(&encoded_bytes)?: the bytes go after what the opened file
\* holds; a failing write leaves the bytes written before the failure
PfWrite ==
    /\ pf.pc = "write"
    /\ \/ /\ disk' = [disk EXCEPT ![pf.file] = @ \o pf.encoded_bytes]
          /\ pf' = PfReturn(pf, "Ok")
          /\ log' = Append(log, Report("overwritten", pf.file))
       \/ /\ \E k \in 0..(Len(pf.encoded_bytes) - 1) :
                disk' = [disk EXCEPT ![pf.file] = @ \o SubSeq(pf.encoded_bytes, 1, k)]
          /\ pf' = PfReturn(pf, "IOError")
          /\ UNCHANGED log
    /\ UNCHANGED <<pc, exit_code, target_encoding, entries, idx, calls,
                   add_vars>>

\* The caller's match on the call's result: one line per call.
Finished(frame) ==
    [file |-> frame.file, result |-> frame.result,
     before |-> frame.before, after |-> disk[frame.file]]

ResultReport(frame) ==
    Report(IF frame.result = "Ok" THEN "converted" ELSE "error", frame.file)

\* --- main

Exit(code) == pc' = "exited" /\ exit_code' = code

\* fs::read_to_string(config_filename).expect(..): a panic ends the process
\* with status 101
ReadConfig ==
    /\ pc = "read_config"
    /\ \/ pc' = "parse_config" /\ UNCHANGED <<exit_code, log>>
       \/ Exit(101) /\ log' = Append(log, Report("config_read_error", 0))
    /\ UNCHANGED <<target_encoding, disk, entries, idx, pf, calls, add_vars>>

\* toml::from_str(&config_content); Err: eprintln!, std::process::exit(1).
\* Ok: the target encoding of the label, UTF-8 for a label that names none.
ParseConfig ==
    /\ pc = "parse_config"
    /\ \/ \E label \in Labels :
            /\ target_encoding' = TargetEncoding(label)
            /\ log' = IF for_label(label) = "None"
                      THEN Append(log, Report("invalid_target", 0))
                      ELSE log
            /\ pc' = "check_path"
            /\ UNCHANGED exit_code
       \/ /\ Exit(1)
          /\ log' = Append(log, Report("config_parse_error", 0))
          /\ UNCHANGED target_encoding
    /\ UNCHANGED <<disk, entries, idx, pf, calls, add_vars>>

\* if !path.exists() { eprintln!(..); return; }: main returns, status 0
PathMissing ==
    /\ pc = "check_path"
    /\ Exit(0)
    /\ log' = Append(log, Report("path_missing", 0))
    /\ UNCHANGED <<target_encoding, disk, entries, idx, pf, calls, add_vars>>

\* path.is_dir(): process_directory(&path, ..)
DispatchDir ==
    /\ pc = "check_path"
    /\ entries # <<>>
    /\ pc' = "walk"
    /\ idx' = 1
    /\ UNCHANGED <<exit_code, target_encoding, disk, entries, pf, log, calls,
                   add_vars>>

\* path.is_file(): process_file(&path, target_encoding)
DispatchFile ==
    /\ pc = "check_path"
    /\ entries = <<>>
    /\ pc' = "file_call"
    /\ pf' = PfCall(1)
    /\ UNCHANGED <<exit_code, target_encoding, disk, entries, idx, log, calls,
                   add_vars>>

\* a path that exists and is neither a directory nor a regular file
DispatchOther ==
    /\ pc = "check_path"
    /\ pc' = "finish"
    /\ UNCHANGED <<exit_code, target_encoding, disk, entries, idx, pf, log, calls,
                   add_vars>>

\* main's match on process_file's result: both arms print and go on
FileResult ==
    /\ pc = "file_call"
    /\ pf.pc = "ret"
    /\ log' = Append(log, ResultReport(pf))
    /\ calls' = Append(calls, Finished(pf))
    /\ pf' = PfIdle
    /\ pc' = "finish"
    /\ UNCHANGED <<exit_code, target_encoding, disk, entries, idx, add_vars>>

\* std::io::stdin().read_line(&mut buffer).unwrap(), then main returns
Finish ==
    /\ pc = "finish"
    /\ \/ Exit(0)
       \/ Exit(101)
    /\ UNCHANGED <<target_encoding, disk, entries, idx, pf, log, calls,
                   add_vars>>

\* --- process_directory

\* an entry that is no file, or has another extension, is passed over
WalkSkip ==
    /\ pc = "walk"
    /\ idx <= Len(entries)
    /\ entries[idx] # "match"
    /\ idx' = idx + 1
    /\ UNCHANGED <<pc, exit_code, target_encoding, disk, entries, pf, log, calls,
                   add_vars>>

WalkCall ==
    /\ pc = "walk"
    /\ idx <= Len(entries)
    /\ entries[idx] = "match"
    /\ pf' = PfCall(idx)
    /\ pc' = "walk_call"
    /\ UNCHANGED <<exit_code, target_encoding, disk, entries, idx, log, calls,
                   add_vars>>

\* (mutant: a failed file ends the walk)
WalkResult_abort ==
    /\ pc = "walk_call"
    /\ pf.pc = "ret"
    /\ log' = Append(log, ResultReport(pf))
    /\ calls' = Append(calls, Finished(pf))
    /\ pf' = PfIdle
    /\ IF pf.result = "Ok"
       THEN idx' = idx + 1 /\ pc' = "walk"
       ELSE idx' = idx /\ pc' = "finish"
    /\ UNCHANGED <<exit_code, target_encoding, disk, entries, add_vars>>

\* the loop's match on process_file's result: both arms print, the loop goes on
WalkResult ==
    /\ pc = "walk_call"
    /\ pf.pc = "ret"
    /\ log' = Append(log, ResultReport(pf))
    /\ calls' = Append(calls, Finished(pf))
    /\ pf' = PfIdle
    /\ idx' = idx + 1
    /\ pc' = "walk"
    /\ UNCHANGED <<exit_code, target_encoding, disk, entries, add_vars>>

WalkDone ==
    /\ pc = "walk"
    /\ idx > Len(entries)
    /\ pc' = "finish"
    /\ UNCHANGED <<exit_code, target_encoding, disk, entries, idx, pf, log, calls,
                   add_vars>>

PfNext == PfOpen \/ PfRead \/ PfResolve \/ PfDecode \/ PfEncode \/ PfCreate \/ PfWrite

\* --- the whole program, on a directory of NumFiles entries or on one file

\* The contents of the files of a directory: "A", and a UTF-16LE signature
\* followed by half a code unit (it decodes with an error, to U+FFFD, which
\* windows-1252 cannot represent).
SampleFiles == { <<65>>, <<255, 254, 65>> }

NoAdd == add_in = <<>> /\ add_out = [status |-> "none", value |-> <<>>]

Init ==
    /\ pc = "read_config"
    /\ exit_code = -1
    /\ target_encoding = "None"
    /\ \/ /\ entries \in [1..NumFiles -> {"match", "skip"}]
          /\ disk \in [1..NumFiles -> SampleFiles]
       \/ /\ entries = <<>>
          /\ disk \in [{1} -> SampleFiles]
    /\ idx = 0
    /\ pf = PfIdle
    /\ log = <<>>
    /\ calls = <<>>
    /\ NoAdd

Next ==
    \/ ReadConfig \/ ParseConfig \/ PathMissing
    \/ DispatchDir \/ DispatchFile \/ DispatchOther
    \/ FileResult \/ Finish
    \/ WalkSkip \/ WalkCall \/ WalkResult \/ WalkDone
    \/ PfNext

Spec == Init /\ [][Next]_vars

\* --- process_file on one file of any content, and once more on the file a
\* successful call leaves

InitFile ==
    /\ pc = "file_call"
    /\ exit_code = -1
    /\ target_encoding \in {TargetEncoding(label) : label \in Labels}
    /\ entries = <<>>
    /\ disk \in [{1} -> SeqsUpTo(Bytes, MaxLen)]
    /\ idx = 0
    /\ pf = PfIdle
    /\ log = <<>>
    /\ calls = <<>>
    /\ NoAdd

\* process_file(&path, target_encoding): the first call, and a second one
\* after a first that returned Ok
Convert ==
    /\ pc = "file_call"
    /\ pf.pc = "idle"
    /\ \/ calls = <<>>
       \/ Len(calls) = 1 /\ calls[1].result = "Ok"
    /\ pf' = PfCall(1)
    /\ UNCHANGED <<pc, exit_code, target_encoding, disk, entries, idx, log, calls,
                   add_vars>>

Converted ==
    /\ pc = "file_call"
    /\ pf.pc = "ret"
    /\ log' = Append(log, ResultReport(pf))
    /\ calls' = Append(calls, Finished(pf))
    /\ pf' = PfIdle
    /\ UNCHANGED <<pc, exit_code, target_encoding, disk, entries, idx, add_vars>>

NextFile == Convert \/ PfNext \/ Converted

SpecFile == InitFile /\ [][NextFile]_vars

\* ------------------------------------------------------- demo_lib::add

\* A u64 is four 16-bit limbs, least significant first.
Limb == 2 ^ 16

U64(n3, n2, n1, n0) == <<n0, n1, n2, n3>>

U64Samples ==
    { U64(0, 0, 0, 0), U64(0, 0, 0, 1), U64(0, 0, 0, 2), U64(0, 0, 0, 65535),
      U64(0, 0, 65535, 65535), U64(32768, 0, 0, 0),
      U64(65535, 65535, 65535, 65534), U64(65535, 65535, 65535, 65535) }

Builds == {"debug", "release"}

RECURSIVE LimbSum(_, _, _, _)
LimbSum(a, b, i, carry) ==
    IF i > Len(a) THEN [limbs |-> <<>>, carry |-> carry]
    ELSE LET t == a[i] + b[i] + carry
             r == LimbSum(a, b, i + 1, t \div Limb)
         IN  [limbs |-> <<t % Limb>> \o r.limbs, carry |-> r.carry]

\* (mutant: the sum saturates at u64::MAX)
add_saturating(left, right, build) ==
    LET s == LimbSum(left, right, 1, 0) IN
    IF s.carry # 0
    THEN [status |-> "returned", value |-> U64(65535, 65535, 65535, 65535)]
    ELSE [status |-> "returned", value |-> s.limbs]

\* left + right on u64: with overflow checks (the debug profile) an overflow
\* panics, without them (the release profile) the sum wraps.
add(left, right, build) ==
    LET s == LimbSum(left, right, 1, 0) IN
    IF s.carry # 0 /\ build = "debug"
    THEN [status |-> "panic", value |-> <<>>]
    ELSE [status |-> "returned", value |-> s.limbs]

Add ==
    /\ add_out.status = "none"
    /\ add_in # <<>>
    /\ add_out' = add(add_in[1], add_in[2], add_in[3])
    /\ UNCHANGED <<pc, exit_code, target_encoding, disk, entries, idx, pf, log,
                   calls, add_in>>

InitAdd ==
    /\ pc = "exited"
    /\ exit_code = 0
    /\ target_encoding = "None"
    /\ entries = <<>>
    /\ disk = <<>>
    /\ idx = 0
    /\ pf = PfIdle
    /\ log = <<>>
    /\ calls = <<>>
    /\ add_in \in U64Samples \X U64Samples \X Builds
    /\ add_out = [status |-> "none", value |-> <<>>]

NextAdd == Add

SpecAdd == InitAdd /\ [][NextAdd]_vars

\* ================================================================ claims

\* The byte-order-marks and the encodings they name.
Signatures ==
    { <<"UTF_8", <<239, 187, 191>>>>, <<"UTF_16LE", <<255, 254>>>>,
      <<"UTF_16BE", <<254, 255>>>> }

HasSignature(bytes) == \E s \in Signatures : StartsWith(bytes, s[2])

\* The running call is past the statement that chooses the source encoding.
Resolved == pf.source_encoding # "None"

\* The running call is past source_encoding.decode (a call returns after the
\* choice of the source encoding only from the encode step or later).
Decoded == pf.pc \in {"encode", "create", "write"} \/ (pf.pc = "ret" /\ Resolved)

\* The running call is past target_encoding.encode.
EncoderRan ==
    pf.pc \in {"create", "write"}
    \/ (pf.pc = "ret" /\ (pf.result \in {"Ok", "TargetUnrepresentable"} \/ pf.create_called))

IsAscii(bytes) == \A i \in 1..Len(bytes) : bytes[i] < 128

\* C1: when encoding the decoded text into the target encoding reports errors,
\* process_file returns the failure TargetUnrepresentable, never calls
\* File::create, and the file keeps the bytes it had.
C1_LossyTargetRejected ==
    (EncoderRan /\ Encode(target_encoding, pf.decoded_str).had_errors)
        => /\ pf.pc = "ret"
           /\ pf.result = "TargetUnrepresentable"
           /\ ~pf.create_called
           /\ disk[pf.file] = pf.before

C1_Witness ==
    /\ pf.pc = "ret"
    /\ pf.result = "TargetUnrepresentable"
    /\ pf.encode_had_errors
    /\ pf.before # <<>>

\* C2 as claimed: the encoder and the overwrite are never reached for a file
\* whose decode reported errors.
C2_Claimed ==
    pf.decode_had_errors => (~EncoderRan /\ disk[pf.file] = pf.before)

\* C2 as amended: a decode that reported errors is only reported as a warning;
\* the call goes on to the encoder, it returns no failure of its own for the
\* decode errors, and when it returns Ok the file holds the encoding of the
\* text with the replacement characters.
C2_DecodeErrorsOnlyWarn ==
    (Decoded /\ pf.decode_had_errors)
        => /\ \E i \in 1..Len(log) : log[i] = Report("decode_warning", pf.file)
           /\ pf.pc = "ret" => EncoderRan
           /\ (pf.pc = "ret" /\ pf.result = "Ok")
                 => /\ 65533 \in {pf.decoded_str[i] : i \in 1..Len(pf.decoded_str)}
                    /\ disk[pf.file] = Encode(target_encoding, pf.decoded_str).bytes

C2_Witness ==
    /\ pf.pc = "ret"
    /\ pf.result = "Ok"
    /\ pf.decode_had_errors
    /\ disk[pf.file] # pf.before

\* The bytes a conversion of `bytes` into the target encoding is to write.
ConvertedBytes(bytes) ==
    LET src == IF HasSignature(bytes) THEN for_bom(bytes) ELSE <<"WINDOWS_1252", 0>>
    IN  Encode(target_encoding, Decode(src[1], Drop(bytes, src[2])).text).bytes

\* C3 as claimed: at every moment of a call, also after an I/O failure, the
\* file holds its original bytes or the complete converted bytes.
C3_Claimed ==
    pf.pc # "idle" => disk[pf.file] \in {pf.before, ConvertedBytes(pf.before)}

C5_Claimed ==
    (Resolved /\ ~HasSignature(pf.buffer))
        => /\ pf.pc = "ret"
           /\ pf.result = "NoEncodingResolved"
           /\ ~pf.create_called

\* C5 as amended: a buffer without a byte-order-mark is decoded as
\* windows-1252, byte by byte and without errors; no call ends with
\* NoEncodingResolved, and the call that returns Ok has written the file.
C5_DefaultsToWindows1252 ==
    /\ pf.result # "NoEncodingResolved"
    /\ (Resolved /\ ~HasSignature(pf.buffer))
          => /\ pf.source_encoding = "WINDOWS_1252"
             /\ pf.bom_len = 0
             /\ ~pf.decode_had_errors
             /\ Decoded => /\ Len(pf.decoded_str) = Len(pf.buffer)
                           /\ \A i \in 1..Len(pf.buffer) :
                                 pf.decoded_str[i] = W1252Char(pf.buffer[i])
             /\ (pf.pc = "ret" /\ pf.result = "Ok")
                   => /\ pf.create_called
                      /\ disk[pf.file] = Encode(target_encoding, pf.decoded_str).bytes

C5_Witness ==
    /\ pf.pc = "ret"
    /\ pf.result = "Ok"
    /\ ~HasSignature(pf.buffer)
    /\ ~IsAscii(pf.buffer)
    /\ disk[pf.file] # pf.before

\* How many lines `converted`/`error` the program printed for a file, and how
\* many calls of process_file finished for it.
ReportsFor(file) ==
    Cardinality({k \in 1..Len(log) :
                    log[k].file = file /\ log[k].kind \in {"converted", "error"}})

CallsFor(file) == Cardinality({k \in 1..Len(calls) : calls[k].file = file})

InDirectoryMode == entries # <<>> /\ idx > 0

\* C6: in directory mode a failed file does not stop the walk: every matching
\* entry the loop has passed was processed once and reported once (`converted`
\* for Ok, `error` for a failure), the process does not exit during the walk,
\* and the walk ends only after the last entry.
C6_DirectoryIsolation ==
    /\ pc \in {"walk", "walk_call"} => exit_code = -1
    /\ InDirectoryMode =>
          /\ \A i \in 1..Len(entries) :
                LET expected == IF entries[i] = "match" /\ i < idx THEN 1 ELSE 0
                IN  ReportsFor(i) = expected /\ CallsFor(i) = expected
          /\ \A k \in 1..Len(calls) :
                Report(IF calls[k].result = "Ok" THEN "converted" ELSE "error",
                       calls[k].file) \in {log[j] : j \in 1..Len(log)}
          /\ pc \in {"finish", "exited"} => idx > Len(entries)

\* three files, the second of which fails: the first and the third are converted
C6_Witness ==
    /\ InDirectoryMode
    /\ pc = "finish"
    /\ Len(calls) >= 3
    /\ calls[1].result = "Ok"
    /\ calls[2].result = "TargetUnrepresentable"
    /\ calls[3].result = "Ok"
    /\ calls[3].file = calls[2].file + 1

\* C7 as claimed: in single-file mode a failure of process_file ends the run
\* with a nonzero exit status.
C7_Claimed ==
    (entries = <<>> /\ pc = "exited" /\ calls # <<>> /\ calls[1].result # "Ok")
        => exit_code # 0

\* C8 as claimed: a configuration file that cannot be read or parsed, or a
\* path that does not exist, ends the run at once with a nonzero exit status,
\* and no file is processed or modified.
C8_Claimed ==
    \A k \in 1..Len(log) :
        log[k].kind \in {"config_read_error", "config_parse_error", "path_missing"}
            => /\ pc = "exited"
               /\ exit_code \notin {-1, 0}
               /\ calls = <<>>
               /\ pf = PfIdle

\* The limbs r and the carry out c are those of a + b.
AddsUp(a, b, r, c) ==
    /\ Len(r) = Len(a)
    /\ \E carries \in [1..(Len(a) + 1) -> {0, 1}] :
          /\ carries[1] = 0
          /\ carries[Len(a) + 1] = c
          /\ \A i \in 1..Len(a) : a[i] + b[i] + carries[i] = r[i] + Limb * carries[i + 1]

\* a > b, as numbers
RECURSIVE Greater(_, _, _)
Greater(a, b, i) ==
    IF i = 0 THEN FALSE
    ELSE IF a[i] # b[i] THEN a[i] > b[i]
    ELSE Greater(a, b, i - 1)

\* left + right > u64::MAX, that is left > u64::MAX - right
Overflows(left, right) ==
    Greater(left, [i \in 1..Len(right) |-> (Limb - 1) - right[i]], Len(left))

\* C9 as claimed: add returns the arithmetic sum for every pair of inputs.
C9_Claimed ==
    add_out.status # "none"
        => /\ add_out.status = "returned"
           /\ AddsUp(add_in[1], add_in[2], add_out.value, 0)

\* C9 as amended: add returns left + right when the sum is at most u64::MAX;
\* when it is more, a build with overflow checks panics and a build without
\* them returns the sum modulo 2^64.
C9_AddWithinRange ==
    add_out.status # "none"
        => IF ~Overflows(add_in[1], add_in[2])
           THEN /\ add_out.status = "returned"
                /\ AddsUp(add_in[1], add_in[2], add_out.value, 0)
           ELSE IF add_in[3] = "debug"
           THEN add_out.status = "panic"
           ELSE /\ add_out.status = "returned"
                /\ AddsUp(add_in[1], add_in[2], add_out.value, 1)

C9_Witness ==
    /\ add_out.status = "returned"
    /\ Overflows(add_in[1], add_in[2])
    /\ add_out.value = U64(0, 0, 0, 1)

====
